---- MODULE Spec2Model ----
(***************************************************************************)
(* Model of the log analysis tool (app/analyze_logs.py, app/agent_helper.py) *)
(*                                                                         *)
(* Strings are sequences of one-character strings, so that the regular     *)
(* expressions, str.split and str.strip of the source are computed         *)
(* character by character.                                                 *)
(***************************************************************************)
EXTENDS Integers, Sequences, FiniteSets, TLC

VARIABLES
    pc,                  \* position of the running function
    line,                \* parse_log_entry: its argument
    log_entry,           \* parse_log_entry: the dict it returns
    error,               \* pattern extraction: the buffered message at hand
    pattern,             \* pattern extraction: the pattern appended for it
    matches,             \* main: the entries handed to analyze_log_entries
    acc,                 \* analyze_log_entries: what its loop over the entries filled
    error_patterns,      \* analyze_log_entries: its list of (component, pattern)
    analysis,            \* main: the dict analyze_log_entries returned
    solutions,           \* main: result['solutions']
    disable_ai,          \* os.environ DISABLE_AI_ENHANCEMENT == 'true'
    ollama_up,           \* whether GET /api/version answers 200 right now
    enhanced,            \* enhance_solutions: its local list
    ai_enhancement_used, \* result['ai_enhancement_used'] ("absent" | "True" | "False")
    ollama_model_used,   \* whether result carries 'ollama_model_used'
    ai_error             \* whether result carries 'ai_error'

parseVars   == <<line, log_entry>>
extractVars == <<error, pattern>>
analyzeVars == <<acc, error_patterns>>
aiVars      == <<disable_ai, ollama_up, enhanced, ai_enhancement_used,
                 ollama_model_used, ai_error>>

vars == <<pc, parseVars, extractVars, matches, analyzeVars, analysis, solutions, aiVars>>

(***************************************************************************)
(* Characters                                                              *)
(***************************************************************************)
LowerAlpha == <<"a","b","c","d","e","f","g","h","i","j","k","l","m",
                "n","o","p","q","r","s","t","u","v","w","x","y","z">>
UpperAlpha == <<"A","B","C","D","E","F","G","H","I","J","K","L","M",
                "N","O","P","Q","R","S","T","U","V","W","X","Y","Z">>
DigitChars == <<"0","1","2","3","4","5","6","7","8","9">>

Range(f) == {f[x] : x \in DOMAIN f}

LowerSet == Range(LowerAlpha)
UpperSet == Range(UpperAlpha)
DigitSet == Range(DigitChars)

WordSet  == LowerSet \cup UpperSet \cup DigitSet \cup {"_"}
SpaceSet == {" ", "\t", "\n", "\r"}
IdSet    == {"a","b","c","d","e","f","-"} \cup DigitSet

\* \d
IsDigit(c) == c \in DigitSet
\* \w
IsWord(c) == c \in WordSet
\* the characters str.strip() removes
IsSpace(c) == c \in SpaceSet
\* [a-f0-9\-] (no re.IGNORECASE on this pattern)
IsIdChar(c) == c \in IdSet

UpperOf == [c \in LowerSet |-> UpperAlpha[CHOOSE k \in 1..26 : LowerAlpha[k] = c]]
LowerOf == [c \in UpperSet |-> LowerAlpha[CHOOSE k \in 1..26 : UpperAlpha[k] = c]]

\* str.upper() and str.lower(), one character
ToUpper(c) == IF c \in LowerSet THEN UpperOf[c] ELSE c
ToLower(c) == IF c \in UpperSet THEN LowerOf[c] ELSE c

Upper(s) == [k \in 1..Len(s) |-> ToUpper(s[k])]
Lower(s) == [k \in 1..Len(s) |-> ToLower(s[k])]

(***************************************************************************)
(* str helpers                                                             *)
(***************************************************************************)
Min(S) == CHOOSE x \in S : \A y \in S : x <= y
Max(S) == CHOOSE x \in S : \A y \in S : x >= y

\* s[p:] with p 1-based
From(s, p) == SubSeq(s, p, Len(s))

\* whether sub occurs in s at position p
OccursAt(s, sub, p) ==
    /\ p >= 1
    /\ p + Len(sub) - 1 <= Len(s)
    /\ \A k \in 1..Len(sub) : s[p + k - 1] = sub[k]

\* the positions where sub occurs in s
Occurrences(s, sub) == {p \in 1..Len(s) : OccursAt(s, sub, p)}

\* sub in s
Contains(s, sub) == Occurrences(s, sub) # {}

\* s.split(sep, 1)[-1]: the text after the first occurrence of sep, or all
\* of s when sep does not occur
SplitLast(s, sep) ==
    LET found == Occurrences(s, sep)
    IN  IF found # {} THEN From(s, Min(found) + Len(sep)) ELSE s

\* s.strip()
Strip(s) ==
    LET keep == {p \in 1..Len(s) : ~IsSpace(s[p])}
    IN  IF keep = {} THEN <<>> ELSE SubSeq(s, Min(keep), Max(keep))

\* \b at the boundary before position p (p in 1..Len(s)+1)
WordBoundary(s, p) ==
    LET before == p > 1 /\ IsWord(s[p - 1])
        after  == p <= Len(s) /\ IsWord(s[p])
    IN  before # after

(***************************************************************************)
(* parse_log_entry                                                         *)
(***************************************************************************)
kwERROR    == <<"E","R","R","O","R">>
kwINFO     == <<"I","N","F","O">>
kwWARNING  == <<"W","A","R","N","I","N","G">>
kwDEBUG    == <<"D","E","B","U","G">>
kwCRITICAL == <<"C","R","I","T","I","C","A","L">>
kwWARN     == <<"W","A","R","N">>
kwFATAL    == <<"F","A","T","A","L">>
kwUNKNOWN  == <<"U","N","K","N","O","W","N">>

\* the alternation of the severity pattern, in its order
SeverityWords == <<kwERROR, kwINFO, kwWARNING, kwDEBUG, kwCRITICAL, kwWARN, kwFATAL>>

\* \b(word)\b matches at p, ignoring case
SeverityWordAt(s, p, w) ==
    /\ WordBoundary(s, p)
    /\ p + Len(w) - 1 <= Len(s)
    /\ \A k \in 1..Len(w) : ToUpper(s[p + k - 1]) = w[k]
    /\ WordBoundary(s, p + Len(w))

\* the first alternative of the severity pattern that matches at p
SeverityWordFrom(s, p) ==
    SeverityWords[Min({n \in 1..Len(SeverityWords) : SeverityWordAt(s, p, SeverityWords[n])})]

\* the match object for a match at the leftmost of hits, if any
SeverityGroup(s, hits) ==
    IF hits = {} THEN [found |-> FALSE, group |-> <<>>]
    ELSE [found |-> TRUE,
          group |-> SubSeq(s, Min(hits), Min(hits) + Len(SeverityWordFrom(s, Min(hits))) - 1)]

\* re.search of the severity pattern: the leftmost position at which an
\* alternative matches, and the first such alternative
severity_match(s) ==
    SeverityGroup(s, {p \in 1..Len(s) :
                         /\ WordBoundary(s, p)
                         /\ \E n \in 1..Len(SeverityWords) : SeverityWordAt(s, p, SeverityWords[n])})

\* one pattern item against one character: "d" is \d, "T " is [T ], any
\* other item is the literal character
ItemMatches(item, c) ==
    CASE item = "d"  -> IsDigit(c)
      [] item = "T " -> c \in {"T", " "}
      [] OTHER       -> c = item

ItemsAt(s, p, items) ==
    /\ p + Len(items) - 1 <= Len(s)
    /\ \A k \in 1..Len(items) : ItemMatches(items[k], s[p + k - 1])

\* \d{4}-\d{2}-\d{2}[T ]\d{2}:\d{2}:\d{2}
IsoItems == <<"d","d","d","d","-","d","d","-","d","d","T ",
              "d","d",":","d","d",":","d","d">>

Digits(n) == [k \in 1..n |-> "d"]

\* \d{1,2}/\d{1,2}/\d{4}[ T]\d{2}:\d{2} with the two counted repeats fixed
SlashItems(m, d) ==
    Digits(m) \o <<"/">> \o Digits(d) \o <<"/">> \o Digits(4) \o <<"T ">>
        \o Digits(2) \o <<":">> \o Digits(2)

\* the alternatives of the timestamp pattern in the order the regex engine
\* tries them at one position (greedy repeats first)
TimestampAlternatives ==
    <<IsoItems, SlashItems(2, 2), SlashItems(2, 1), SlashItems(1, 2), SlashItems(1, 1)>>

\* the first alternative of the timestamp pattern that matches at p
TimestampItemsFrom(s, p) ==
    TimestampAlternatives[Min({n \in 1..Len(TimestampAlternatives) :
                                  ItemsAt(s, p, TimestampAlternatives[n])})]

\* the match object for a match at the leftmost of hits, if any
TimestampGroup(s, hits) ==
    IF hits = {} THEN [found |-> FALSE, group |-> <<>>]
    ELSE [found |-> TRUE,
          group |-> SubSeq(s, Min(hits), Min(hits) + Len(TimestampItemsFrom(s, Min(hits))) - 1)]

\* re.search of the timestamp pattern
timestamp_match(s) ==
    TimestampGroup(s, {p \in 1..Len(s) :
                          \E n \in 1..Len(TimestampAlternatives) :
                              ItemsAt(s, p, TimestampAlternatives[n])})

\* \[([^\]]+)\] matches at p and closes at q
BracketAt(s, p, q) ==
    /\ s[p] = "["
    /\ q > p + 1
    /\ q <= Len(s)
    /\ s[q] = "]"
    /\ \A k \in (p + 1)..(q - 1) : s[k] # "]"

\* the match object for a match at the leftmost of hits, if any
ComponentGroup(s, hits) ==
    IF hits = {} THEN [found |-> FALSE, group |-> <<>>]
    ELSE [found |-> TRUE,
          group |-> SubSeq(s, Min(hits) + 1,
                           Min({q \in 1..Len(s) : BracketAt(s, Min(hits), q)}) - 1)]

\* re.search of the component pattern
component_match(s) ==
    ComponentGroup(s, {p \in 1..Len(s) : \E q \in 1..Len(s) : BracketAt(s, p, q)})

\* the text the component is searched in, sev being the severity match
Remainder(s, sev) ==
    IF sev.found THEN Strip(SplitLast(s, sev.group)) ELSE s

\* the dict with the message left as split, its .strip() forgotten
LogEntryUnstripped(s, ts, sev, remainder, comp) ==
    [raw           |-> s,
     has_timestamp |-> ts.found,
     timestamp     |-> ts.group,
     severity      |-> IF sev.found THEN Upper(sev.group) ELSE kwUNKNOWN,
     has_component |-> comp.found,
     component     |-> comp.group,
     message       |-> IF comp.found
                       THEN SplitLast(remainder, <<"]", ":">>)
                       ELSE remainder]

\* the dict parse_log_entry builds from its three matches; an absent key
\* is has_... = FALSE
LogEntry(s, ts, sev, remainder, comp) ==
    [raw           |-> s,
     has_timestamp |-> ts.found,
     timestamp     |-> ts.group,
     severity      |-> IF sev.found THEN Upper(sev.group) ELSE kwUNKNOWN,
     has_component |-> comp.found,
     component     |-> comp.group,
     message       |-> IF comp.found
                       THEN Strip(SplitLast(remainder, <<"]", ":">>))
                       ELSE remainder]

\* the component is searched in the remainder
WithRemainder(s, ts, sev, remainder) ==
    LogEntry(s, ts, sev, remainder, component_match(remainder))

\* the remainder is taken after the severity match
WithSeverity(s, ts, sev) == WithRemainder(s, ts, sev, Remainder(s, sev))

parse_log_entry(s) == WithSeverity(s, timestamp_match(s), severity_match(s))

(***************************************************************************)
(* Pattern extraction (analyze_log_entries, the two re.sub calls)          *)
(***************************************************************************)
MinIdLen == 8
IdToken  == <<"<","I","D",">">>
NumToken == <<"<","N","U","M",">">>

\* the length of the run of [a-f0-9\-] characters that starts at p
IdRunLen(s, p) ==
    Min({q \in p..(Len(s) + 1) : q = Len(s) + 1 \/ ~IsIdChar(s[q])}) - p

\* the length of the run of digits that starts at p
DigitRunLen(s, p) ==
    Min({q \in p..(Len(s) + 1) : q = Len(s) + 1 \/ ~IsDigit(s[q])}) - p

\* the ends, as lengths, at which \b[a-f0-9\-]{8,}\b can stop in the run
\* of n characters that starts at p
IdEnds(s, p, n) == {m \in MinIdLen..n : WordBoundary(s, p + m)}

\* the longest of them (the repeat is greedy), 0 when there is none
Longest(ends) == IF ends = {} THEN 0 ELSE Max(ends)

\* the length \b[a-f0-9\-]{8,}\b matches at p, 0 when it does not match
IdMatchLen(s, p) ==
    IF WordBoundary(s, p) THEN Longest(IdEnds(s, p, IdRunLen(s, p))) ELSE 0

RECURSIVE IdSubFrom(_, _)
\* one step of the scan: a match of n characters at p is replaced, or the
\* character at p is kept
IdSubStep(s, p, n) ==
    IF n > 0 THEN IdToken \o IdSubFrom(s, p + n)
             ELSE <<s[p]>> \o IdSubFrom(s, p + 1)

\* re.sub(r'\b[a-f0-9\-]{8,}\b', '<ID>', s), scanning from p
IdSubFrom(s, p) ==
    IF p > Len(s) THEN <<>> ELSE IdSubStep(s, p, IdMatchLen(s, p))

RECURSIVE NumSubFrom(_, _)
NumSubStep(s, p, n) ==
    IF n > 0 THEN NumToken \o NumSubFrom(s, p + n)
             ELSE <<s[p]>> \o NumSubFrom(s, p + 1)

\* re.sub(r'\d+', '<NUM>', s), scanning from p
NumSubFrom(s, p) ==
    IF p > Len(s) THEN <<>> ELSE NumSubStep(s, p, DigitRunLen(s, p))

IdSub(s)  == IdSubFrom(s, 1)
NumSub(s) == NumSubFrom(s, 1)

\* the pattern of one buffered error message: <ID> first, then <NUM>
Normalize(s) == NumSub(IdSub(s))

\* the guard of the inner loop: `if error and len(error) > 10`
MinMessageLen == 10
IsCandidate(s) == Len(s) > MinMessageLen

(***************************************************************************)
(* analyze_log_entries                                                     *)
(***************************************************************************)
kwErrorSeverities == {kwERROR, kwCRITICAL, kwFATAL}

\* a Counter whose `+= 1` is written `= 1`
IncrAssigns(counter, key) ==
    [k \in DOMAIN counter \cup {key} |-> IF k = key THEN 1 ELSE counter[k]]

\* Counter()[key] += 1 on a Counter held as a function from its keys
Incr(counter, key) ==
    IF key \in DOMAIN counter
    THEN [counter EXCEPT ![key] = @ + 1]
    ELSE [k \in DOMAIN counter \cup {key} |-> IF k = key THEN 1 ELSE counter[k]]

\* defaultdict(list)[component].append(message) on an insertion-ordered
\* dict held as a sequence of [component, errors]
AppendError(ebc, component, message) ==
    IF \E k \in 1..Len(ebc) : ebc[k].component = component
    THEN [k \in 1..Len(ebc) |->
             IF ebc[k].component = component
             THEN [ebc[k] EXCEPT !.errors = Append(@, message)]
             ELSE ebc[k]]
    ELSE Append(ebc, [component |-> component, errors |-> <<message>>])

\* whether the entry's message goes to errors_by_component
IsBuffered(parsed) ==
    parsed.has_component /\ parsed.severity \in kwErrorSeverities

EmptyAcc ==
    [severities |-> <<>>, components |-> <<>>,
     errors_by_component |-> <<>>, timestamps |-> <<>>]

\* one iteration of the loop over the entries, parsed being the entry parsed
Accumulate(a, parsed) ==
    [severities |-> Incr(a.severities, parsed.severity),
     components |-> IF parsed.has_component
                    THEN Incr(a.components, parsed.component)
                    ELSE a.components,
     errors_by_component |->
         IF IsBuffered(parsed)
         THEN AppendError(a.errors_by_component, parsed.component, parsed.message)
         ELSE a.errors_by_component,
     timestamps |-> IF parsed.has_timestamp
                    THEN Append(a.timestamps, parsed.timestamp)
                    ELSE a.timestamps]

LoopBody(a, entry) == Accumulate(a, parse_log_entry(entry.content))

RECURSIVE Loop(_, _)
Loop(entries, n) ==
    IF n = 0 THEN EmptyAcc ELSE LoopBody(Loop(entries, n - 1), entries[n])

\* the characters of the model in code point order
Ascii == <<"\t", "\n", "\r", " ", "-", "/">> \o DigitChars \o <<":", "<", ">">>
            \o UpperAlpha \o <<"[", "]", "_">> \o LowerAlpha
Code(c) == CHOOSE k \in 1..Len(Ascii) : Ascii[k] = c

\* a < b on str
StrLess(a, b) ==
    \E k \in 1..(Len(a) + 1) :
        /\ \A j \in 1..(k - 1) : j <= Len(b) /\ a[j] = b[j]
        /\ k <= Len(b)
        /\ (k > Len(a) \/ Code(a[k]) < Code(b[k]))

\* the number of elements of xs that sorted() puts at or before xs[k]
SortedPos(xs, k) ==
    Cardinality({j \in 1..Len(xs) : StrLess(xs[j], xs[k]) \/ (xs[j] = xs[k] /\ j <= k)})

\* sorted(list of str)
Sorted(xs) ==
    [n \in 1..Len(xs) |-> xs[CHOOSE k \in 1..Len(xs) : SortedPos(xs, k) = n]]

NoTimePattern ==
    [present |-> FALSE, first_occurrence |-> <<>>, last_occurrence |-> <<>>,
     total_occurrences |-> 0]

FirstLast(sorted) ==
    [present |-> TRUE,
     first_occurrence  |-> sorted[1],
     last_occurrence   |-> sorted[Len(sorted)],
     total_occurrences |-> Len(sorted)]

TimePattern(timestamps) ==
    IF timestamps = <<>> THEN NoTimePattern ELSE FirstLast(Sorted(timestamps))

\* the (component, pattern) pairs appended for one component's errors
RECURSIVE ComponentPatterns(_, _)
ComponentPatterns(component, errors) ==
    IF errors = <<>> THEN <<>>
    ELSE (IF IsCandidate(Head(errors))
          THEN <<[component |-> component, pattern |-> Normalize(Head(errors))]>>
          ELSE <<>>)
         \o ComponentPatterns(component, Tail(errors))

\* the error_patterns list before counting: component by component, in
\* the order of errors_by_component.items()
RECURSIVE PatternList(_)
PatternList(ebc) ==
    IF ebc = <<>> THEN <<>>
    ELSE ComponentPatterns(Head(ebc).component, Head(ebc).errors)
         \o PatternList(Tail(ebc))

\* the positions of xs that hold an element for the first time
Firsts(xs) == {k \in 1..Len(xs) : \A j \in 1..(k - 1) : xs[j] # xs[k]}

\* the n-th smallest element of a set of numbers
Nth(S, n) == CHOOSE k \in S : Cardinality({j \in S : j <= k}) = n

\* the Counter item of the key first seen at position k
CounterItem(xs, k) ==
    [key |-> xs[k], count |-> Cardinality({j \in 1..Len(xs) : xs[j] = xs[k]})]

\* the Counter items of the keys first seen at the positions firsts
ItemsOf(xs, firsts) ==
    [n \in 1..Cardinality(firsts) |-> CounterItem(xs, Nth(firsts, n))]

\* Counter(list): its items in insertion order, as [key, count]
CounterItems(xs) == ItemsOf(xs, Firsts(xs))

\* an order that puts the later of two equal counts first
BeforeLaterFirst(items, j, k) ==
    \/ items[j].count > items[k].count
    \/ items[j].count = items[k].count /\ j > k

\* whether item j comes before item k in most_common's order: the larger
\* count first, equal counts in the Counter's insertion order
Before(items, j, k) ==
    \/ items[j].count > items[k].count
    \/ items[j].count = items[k].count /\ j < k

\* the place of item k in most_common's order
CommonPos(items, k) == 1 + Cardinality({j \in 1..Len(items) : Before(items, j, k)})

\* the first n items as inserted, not sorted by count
FirstInserted(items, n) ==
    [r \in 1..(IF Len(items) < n THEN Len(items) ELSE n) |-> items[r]]

\* Counter.most_common(n)
most_common(items, n) ==
    [r \in 1..(IF Len(items) < n THEN Len(items) ELSE n) |->
        items[CHOOSE k \in 1..Len(items) : CommonPos(items, k) = r]]

TopN == 10

\* the list comprehension of the return statement
RenderPatterns(common_patterns) ==
    [r \in 1..Len(common_patterns) |->
        [component |-> common_patterns[r].key.component,
         pattern   |-> common_patterns[r].key.pattern,
         count     |-> common_patterns[r].count]]

\* the error_patterns list built from what the loop buffered
ErrorPatterns(a) == PatternList(a.errors_by_component)

\* what analyze_log_entries returns, a being what the loop filled and
\* patterns the error_patterns list
Summary(entries, a, patterns) ==
    [total_entries         |-> Len(entries),
     severity_distribution |-> a.severities,
     components            |-> a.components,
     time_pattern          |-> TimePattern(a.timestamps),
     error_patterns        |-> RenderPatterns(most_common(CounterItems(patterns), TopN))]

SummaryOf(entries, a) == Summary(entries, a, ErrorPatterns(a))

analyze_log_entries(entries) == SummaryOf(entries, Loop(entries, Len(entries)))

(***************************************************************************)
(* suggest_solutions                                                       *)
(***************************************************************************)
kwConnect    == <<"c","o","n","n","e","c","t">>
kwTimeout    == <<"t","i","m","e","o","u","t">>
kwPermission == <<"p","e","r","m","i","s","s","i","o","n">>
kwDenied     == <<"d","e","n","i","e","d">>
kwMemory     == <<"m","e","m","o","r","y">>
kwCpu        == <<"c","p","u">>
kwDisk       == <<"d","i","s","k">>

ConnectionWords == {kwConnect, kwTimeout}
PermissionWords == {kwPermission, kwDenied}
ResourceWords   == {kwMemory, kwCpu, kwDisk}

\* any(pat for pat in patterns if w1 in pat or w2 in pat ...): a pattern
\* that holds one of the words and is truthy (not the empty string)
AnyPattern(patterns, words) ==
    \E k \in 1..Len(patterns) :
        /\ \E w \in words : Contains(patterns[k], w)
        /\ patterns[k] # <<>>

ConnectionIssues ==
    [problem  |-> "Connection issues",
     solution |-> "Check network settings, server availability, and timeouts."]
PermissionIssues ==
    [problem  |-> "Permission issues",
     solution |-> "Check file and system permissions, user roles, and ACLs."]
ResourceLimits ==
    [problem  |-> "System resource limits",
     solution |-> "Monitor and upgrade resource usage: RAM, CPU, storage."]
Uncategorized ==
    [problem  |-> "Uncategorized errors",
     solution |-> "Check logs manually. Consider refining component configs."]

\* the fallback when no rule fired
OrFallback(rules) == IF rules = <<>> THEN <<Uncategorized>> ELSE rules

\* the rules as an if/elif chain: the first rule that fires wins
RulesFirstWins(patterns) ==
    IF AnyPattern(patterns, ConnectionWords) THEN <<ConnectionIssues>>
    ELSE IF AnyPattern(patterns, PermissionWords) THEN <<PermissionIssues>>
    ELSE IF AnyPattern(patterns, ResourceWords) THEN <<ResourceLimits>>
    ELSE <<>>

\* the three rules, each on its own, over the lower-cased patterns
Rules(patterns) ==
       (IF AnyPattern(patterns, ConnectionWords) THEN <<ConnectionIssues>> ELSE <<>>)
    \o (IF AnyPattern(patterns, PermissionWords) THEN <<PermissionIssues>> ELSE <<>>)
    \o (IF AnyPattern(patterns, ResourceWords)   THEN <<ResourceLimits>>   ELSE <<>>)

suggest_solutions(a) ==
    OrFallback(Rules([k \in 1..Len(a.error_patterns) |-> Lower(a.error_patterns[k].pattern)]))

(***************************************************************************)
(* Inputs                                                                  *)
(***************************************************************************)
\* the concatenation of the pieces numbered by ks
RECURSIVE Concat(_, _)
Concat(pieces, ks) ==
    IF ks = <<>> THEN <<>> ELSE pieces[Head(ks)] \o Concat(pieces, Tail(ks))

\* the sequences of at most n elements of 1..m
UpTo(m, n) == UNION {[1..k -> 1..m] : k \in 0..n}

\* lines handed to parse_log_entry: up to MaxLinePieces pieces
MaxLinePieces == 5
LinePieces == << <<"W","a","r","n">>, <<"s">>, <<" ">>, <<"[">>, <<"]">>, <<":">> >>
Lines == {Concat(LinePieces, ks) : ks \in UpTo(Len(LinePieces), MaxLinePieces)}

\* buffered error messages: up to MaxMessagePieces pieces
MaxMessagePieces == 4
MessagePieces == << <<"a","1","b","2","c">>, <<"A","1","B","2","C">>, <<" ">>,
                    <<"-">>, <<"x">>, <<"3","0">> >>
Messages == {Concat(MessagePieces, ks) : ks \in UpTo(Len(MessagePieces), MaxMessagePieces)}

\* "<severity> [<component>]: <message>", the form load_csv_logs renders
\* (without its timestamp)
Rendered(severity, component, message) ==
    severity \o <<" ", "[">> \o component \o <<"]", ":", " ">> \o message

\* error messages that differ in a letter: "disk error g", "disk error h", ...
Msg(k) == <<"d","i","s","k"," ","e","r","r","o","r"," ">> \o <<LowerAlpha[6 + k]>>

IsoStamp   == <<"2","0","2","3","-","0","6","-","0","1"," ","1","0",":","0","5",":","0","0">>
SlashStamp == <<"6","/","1","/","2","0","2","3"," ","1","0",":","0","5">>
TimeoutMsg == kwTimeout \o <<" ","a","f","t","e","r"," ","3","0">>

\* a batch opens with PrefixLen error entries of distinct patterns whose
\* components alternate A, B, A, ... (or with none), and goes on with up to
\* MaxTail entries of the kinds TailLines
PrefixLen == 10
MaxTail   == 3
Prefix ==
    [k \in 1..PrefixLen |->
        [content |-> Rendered(kwERROR, IF k % 2 = 1 THEN <<"A">> ELSE <<"B">>, Msg(k))]]
TailLines ==
    << Rendered(kwERROR, <<"A">>, Msg(10)),
       Rendered(kwFATAL, <<"B">>, Msg(10)),
       SlashStamp \o <<" ">> \o Rendered(kwINFO, <<"A">>, Msg(11)),
       kwERROR \o <<" ">> \o Msg(12),
       Rendered(kwCRITICAL, <<"C">>, <<"b","a","d">>),
       IsoStamp \o <<" ">> \o Rendered(kwERROR, <<"C">>, TimeoutMsg),
       SlashStamp \o <<" ","n","o","t","e">> >>
Tails ==
    {[k \in 1..Len(ks) |-> [content |-> TailLines[ks[k]]]] :
        ks \in UpTo(Len(TailLines), MaxTail)}
Batches == {p \o t : p \in {<<>>, Prefix}, t \in Tails}

\* batches for the keyword rules: up to MaxKeywordLines error entries, each
\* naming one keyword (or none), one of them in mixed case
MaxKeywordLines == 2
KeywordMsg(w) == w \o <<" ","f","a","i","l","u","r","e">>
KeywordLines ==
    << Rendered(kwERROR, <<"A">>, KeywordMsg(kwConnect)),
       Rendered(kwERROR, <<"A">>, KeywordMsg(kwTimeout)),
       Rendered(kwERROR, <<"A">>, KeywordMsg(kwPermission)),
       Rendered(kwERROR, <<"A">>, KeywordMsg(kwDenied)),
       Rendered(kwERROR, <<"A">>, KeywordMsg(kwMemory)),
       Rendered(kwERROR, <<"A">>, KeywordMsg(kwCpu)),
       Rendered(kwERROR, <<"A">>, KeywordMsg(kwDisk)),
       Rendered(kwERROR, <<"A">>, KeywordMsg(<<"C","o","n","n","e","c","T">>)),
       Rendered(kwERROR, <<"A">>, KeywordMsg(<<"u","n","k","n","o","w","n">>)),
       Rendered(kwINFO,  <<"A">>, KeywordMsg(kwDisk)) >>
KeywordBatches ==
    {[k \in 1..Len(ks) |-> [content |-> KeywordLines[ks[k]]]] :
        ks \in UpTo(Len(KeywordLines), MaxKeywordLines)}

(***************************************************************************)
(* parse_log_entry called on one line                                      *)
(***************************************************************************)
Unset == "unset"

ParseIdle   == line = <<>> /\ log_entry = Unset
ExtractIdle == error = <<>> /\ pattern = Unset
AiIdle ==
    /\ disable_ai = FALSE
    /\ ollama_up = FALSE
    /\ enhanced = <<>>
    /\ ai_enhancement_used = "absent"
    /\ ollama_model_used = FALSE
    /\ ai_error = FALSE
MainIdle ==
    /\ matches = <<>>
    /\ acc = Unset
    /\ error_patterns = Unset
    /\ analysis = Unset
    /\ solutions = Unset
    /\ AiIdle

InitParse ==
    /\ pc = "parse"
    /\ line \in Lines
    /\ log_entry = Unset
    /\ ExtractIdle
    /\ MainIdle

ParseLine ==
    /\ pc = "parse"
    /\ log_entry' = parse_log_entry(line)
    /\ pc' = "parsed"
    /\ UNCHANGED <<line, extractVars, matches, analyzeVars, analysis, solutions, aiVars>>

NextParse == ParseLine

SpecParse == InitParse /\ [][NextParse]_vars

(***************************************************************************)
(* The body of the pattern loop on one buffered error message              *)
(***************************************************************************)
InitExtract ==
    /\ pc = "extract"
    /\ error \in Messages
    /\ pattern = Unset
    /\ ParseIdle
    /\ MainIdle

\* `if error and len(error) > 10`: the pattern is built and appended
AppendPattern ==
    /\ pc = "extract"
    /\ IsCandidate(error)
    /\ pattern' = Normalize(error)
    /\ pc' = "appended"
    /\ UNCHANGED <<parseVars, error, matches, analyzeVars, analysis, solutions, aiVars>>

\* otherwise the message is passed over
SkipShort ==
    /\ pc = "extract"
    /\ ~IsCandidate(error)
    /\ pc' = "skipped"
    /\ UNCHANGED <<parseVars, extractVars, matches, analyzeVars, analysis, solutions, aiVars>>

NextExtract == AppendPattern \/ SkipShort

SpecExtract == InitExtract /\ [][NextExtract]_vars

(***************************************************************************)
(* main: analysis and suggestions                                          *)
(***************************************************************************)
InitAgg ==
    /\ pc = "analyze"
    /\ matches \in Batches
    /\ acc = Unset
    /\ error_patterns = Unset
    /\ analysis = Unset
    /\ solutions = Unset
    /\ AiIdle
    /\ ParseIdle
    /\ ExtractIdle

InitSuggest ==
    /\ pc = "analyze"
    /\ matches \in KeywordBatches
    /\ acc = Unset
    /\ error_patterns = Unset
    /\ analysis = Unset
    /\ solutions = Unset
    /\ AiIdle
    /\ ParseIdle
    /\ ExtractIdle

\* analyze_log_entries: the loop over the entries, the timestamps and the
\* loop that builds error_patterns
CollectPatterns ==
    /\ pc = "analyze"
    /\ acc' = Loop(matches, Len(matches))
    /\ error_patterns' = ErrorPatterns(acc')
    /\ pc' = "count"
    /\ UNCHANGED <<parseVars, extractVars, matches, analysis, solutions, aiVars>>

\* analyze_log_entries: most_common and the return; main holds the result
ReturnSummary ==
    /\ pc = "count"
    /\ analysis' = Summary(matches, acc, error_patterns)
    /\ pc' = "suggest"
    /\ UNCHANGED <<parseVars, extractVars, matches, analyzeVars, solutions, aiVars>>

\* solutions = suggest_solutions(analysis), and the result dict is built
Suggest ==
    /\ pc = "suggest"
    /\ solutions' = suggest_solutions(analysis)
    /\ pc' = "result"
    /\ UNCHANGED <<parseVars, extractVars, matches, analyzeVars, analysis, aiVars>>

NextAgg == CollectPatterns \/ ReturnSummary \/ Suggest

SpecAgg == InitAgg /\ [][NextAgg]_vars

SpecSuggest == InitSuggest /\ [][NextAgg]_vars

(***************************************************************************)
(* main: the AI enhancement of the solutions                               *)
(***************************************************************************)
\* is_ai_enhancement_enabled(), read when it is called
is_ai_enhancement_enabled == ~disable_ai /\ ollama_up

\* the text the model answers with when it does not repeat the base solution
AiText == "AI enhanced solution"

InitMain ==
    /\ pc = "analyze"
    /\ matches \in KeywordBatches
    /\ acc = Unset
    /\ error_patterns = Unset
    /\ analysis = Unset
    /\ solutions = Unset
    /\ disable_ai \in BOOLEAN
    /\ ollama_up \in BOOLEAN
    /\ enhanced = <<>>
    /\ ai_enhancement_used = "absent"
    /\ ollama_model_used = FALSE
    /\ ai_error = FALSE
    /\ ParseIdle
    /\ ExtractIdle

mainVars == <<parseVars, extractVars, matches, analyzeVars, analysis>>

\* main: `if is_ai_enhancement_enabled():` ... `else:`
MainCheck ==
    /\ pc = "result"
    /\ IF is_ai_enhancement_enabled
       THEN pc' = "enhance" /\ UNCHANGED ai_enhancement_used
       ELSE pc' = "done" /\ ai_enhancement_used' = "False"
    /\ UNCHANGED <<mainVars, solutions, disable_ai, ollama_up, enhanced,
                   ollama_model_used, ai_error>>

\* enhance_solutions: its own availability check
EnhanceCheck ==
    /\ pc = "enhance"
    /\ IF ~is_ai_enhancement_enabled
       THEN pc' = "returned" /\ ai_enhancement_used' = "False"
       ELSE pc' = "get_agent" /\ UNCHANGED ai_enhancement_used
    /\ UNCHANGED <<mainVars, solutions, disable_ai, ollama_up, enhanced,
                   ollama_model_used, ai_error>>

\* enhance_solutions: get_agent returns and the loop starts
GetAgent ==
    /\ pc = "get_agent"
    /\ enhanced' = <<>>
    /\ pc' = "loop"
    /\ UNCHANGED <<mainVars, solutions, disable_ai, ollama_up, ai_enhancement_used,
                   ollama_model_used, ai_error>>

\* enhance_solutions: get_agent raises, and main's except clause runs
GetAgentRaises ==
    /\ pc = "get_agent"
    /\ ai_enhancement_used' = "False"
    /\ ai_error' = TRUE
    /\ pc' = "done"
    /\ UNCHANGED <<mainVars, solutions, disable_ai, ollama_up, enhanced,
                   ollama_model_used>>

\* the dict appended for solution s when enhance_solution_direct answers
\* new_sol
Enhanced(s, new_sol) ==
    [problem           |-> s.problem,
     solution          |-> IF new_sol # s.solution THEN new_sol ELSE s.solution,
     ai_enhanced       |-> new_sol # s.solution,
     original_solution |-> IF new_sol # s.solution THEN s.solution ELSE "None"]

\* one iteration of the loop over the solutions; enhance_solution_direct
\* answers with a new text, or with the base solution (also when the
\* request fails)
EnhanceOne ==
    /\ pc = "loop"
    /\ Len(enhanced) < Len(solutions)
    /\ \E new_sol \in {solutions[Len(enhanced) + 1].solution, AiText} :
           enhanced' = Append(enhanced, Enhanced(solutions[Len(enhanced) + 1], new_sol))
    /\ UNCHANGED <<pc, mainVars, solutions, disable_ai, ollama_up,
                   ai_enhancement_used, ollama_model_used, ai_error>>

\* enhance_solutions: after the loop
EnhanceReturn ==
    /\ pc = "loop"
    /\ Len(enhanced) = Len(solutions)
    /\ solutions' = enhanced
    /\ ai_enhancement_used' = "True"
    /\ ollama_model_used' = TRUE
    /\ pc' = "returned"
    /\ UNCHANGED <<mainVars, disable_ai, ollama_up, enhanced, ai_error>>

\* main: result['ai_enhancement_used'] = True after enhance_solutions returned
MainSetUsed ==
    /\ pc = "returned"
    /\ ai_enhancement_used' = "True"
    /\ pc' = "done"
    /\ UNCHANGED <<mainVars, solutions, disable_ai, ollama_up, enhanced,
                   ollama_model_used, ai_error>>

\* the Ollama service comes up or goes down while main runs
OllamaChanges ==
    /\ pc \in {"result", "enhance", "get_agent", "loop", "returned"}
    /\ ollama_up' = ~ollama_up
    /\ UNCHANGED <<pc, mainVars, solutions, disable_ai, enhanced,
                   ai_enhancement_used, ollama_model_used, ai_error>>

NextMain ==
    \/ CollectPatterns
    \/ ReturnSummary
    \/ Suggest
    \/ MainCheck
    \/ EnhanceCheck
    \/ GetAgent
    \/ GetAgentRaises
    \/ EnhanceOne
    \/ EnhanceReturn
    \/ MainSetUsed
    \/ OllamaChanges

SpecMain == InitMain /\ [][NextMain]_vars

(***************************************************************************)
(* Properties of parse_log_entry, stated on the line itself                *)
(***************************************************************************)
\* s[i..j], empty when j < i
Slice(s, i, j) == [k \in 1..(IF j < i THEN 0 ELSE j - i + 1) |-> s[i + k - 1]]

RECURSIVE TrimLeft(_)
TrimLeft(s) ==
    IF s # <<>> /\ Head(s) \in SpaceSet THEN TrimLeft(Tail(s)) ELSE s

RECURSIVE TrimRight(_)
TrimRight(s) ==
    IF s # <<>> /\ s[Len(s)] \in SpaceSet
    THEN TrimRight(Slice(s, 1, Len(s) - 1))
    ELSE s

\* s without its leading and trailing whitespace
Trimmed(s) == TrimRight(TrimLeft(s))

\* the same character up to letter case
SameLetter(c, d) ==
    \/ c = d
    \/ \E k \in 1..26 : {c, d} = {LowerAlpha[k], UpperAlpha[k]}

\* the keyword w stands at p..q of s, in any case, as a word of its own
WholeWordAt(s, p, q, w) ==
    /\ q = p + Len(w) - 1
    /\ q <= Len(s)
    /\ \A k \in 1..Len(w) : SameLetter(s[p + k - 1], w[k])
    /\ p = 1 \/ s[p - 1] \notin WordSet
    /\ q = Len(s) \/ s[q + 1] \notin WordSet

\* the severity tokens of s: <<first position, last position>>
SeverityTokens(s) ==
    {t \in (1..Len(s)) \X (1..Len(s)) :
        \E k \in 1..Len(SeverityWords) : WholeWordAt(s, t[1], t[2], SeverityWords[k])}

HasSeverityToken(s) == SeverityTokens(s) # {}

\* the first whole-word severity token of s
FirstToken(s) ==
    CHOOSE t \in SeverityTokens(s) : \A u \in SeverityTokens(s) : t[1] <= u[1]

\* the text that follows the first severity token
AfterToken(s) == Slice(s, FirstToken(s)[2] + 1, Len(s))

\* the brackets "[...]" of s with something other than "]" inside:
\* <<position of "[", position of the closing "]">>
Brackets(s) ==
    {b \in (1..Len(s)) \X (1..Len(s)) :
        /\ s[b[1]] = "["
        /\ s[b[2]] = "]"
        /\ b[2] > b[1] + 1
        /\ \A k \in (b[1] + 1)..(b[2] - 1) : s[k] # "]"}

HasBracket(s) == Brackets(s) # {}

FirstBracket(s) == CHOOSE b \in Brackets(s) : \A c \in Brackets(s) : b[1] <= c[1]

\* the positions where "]:" starts in s
MarkerStarts(s) == {p \in 1..(Len(s) - 1) : s[p] = "]" /\ s[p + 1] = ":"}

HasMarker(s) == MarkerStarts(s) # {}

\* the text after the first "]:" of s
AfterMarker(s) ==
    Slice(s, (CHOOSE p \in MarkerStarts(s) : \A q \in MarkerStarts(s) : p <= q) + 2, Len(s))

\* C6, as stated: a line without a whole-word severity keyword is parsed to
\* severity UNKNOWN and to a message that is the raw line, trimmed, with
\* nothing removed, also when the line holds a bracket or "]:"
C6RawLineKept ==
    (pc = "parsed" /\ ~HasSeverityToken(line)) =>
        /\ log_entry.severity = kwUNKNOWN
        /\ Trimmed(log_entry.message) = Trimmed(line)

\* C6, amended: a line without a whole-word severity keyword is parsed to
\* severity UNKNOWN; its message is the raw line as given when the line has
\* no bracket, the trimmed line when it has a bracket but no "]:", and the
\* trimmed text after the first "]:" when it has a bracket and "]:"
C6MessageOfUnknown ==
    (pc = "parsed" /\ ~HasSeverityToken(line)) =>
        /\ log_entry.severity = kwUNKNOWN
        /\ log_entry.message =
              IF ~HasBracket(line) THEN line
              ELSE IF ~HasMarker(line) THEN Trimmed(line)
              ELSE Trimmed(AfterMarker(line))

\* a line without severity keyword, with a bracket and a "]:" that has text
\* before and after it, has been parsed, and its message is not the line
C6Witness ==
    /\ pc = "parsed"
    /\ ~HasSeverityToken(line)
    /\ HasBracket(line)
    /\ HasMarker(line)
    /\ log_entry.severity = kwUNKNOWN
    /\ log_entry.message # <<>>
    /\ log_entry.message # Trimmed(line)

\* C7: a line with a whole-word severity keyword (in any case) and no
\* bracket after it is parsed to a message that is the text after the first
\* whole-word severity token, trimmed, also when the keyword's text occurs
\* earlier in the line inside a longer word
C7MessageAfterToken ==
    (pc = "parsed" /\ HasSeverityToken(line) /\ ~HasBracket(AfterToken(line))) =>
        log_entry.message = Trimmed(AfterToken(line))

\* C8: when a bracket is found in the searched remainder and "]:" does not
\* occur in it, the component is the bracket's contents and the message is
\* the trimmed text after that bracket's closing "]"
C8MessageAfterBracket ==
    (/\ pc = "parsed"
     /\ log_entry.has_component
     /\ ~HasMarker(Remainder(line, severity_match(line)))) =>
        /\ log_entry.component =
              Slice(Remainder(line, severity_match(line)),
                    FirstBracket(Remainder(line, severity_match(line)))[1] + 1,
                    FirstBracket(Remainder(line, severity_match(line)))[2] - 1)
        /\ log_entry.message =
              Trimmed(Slice(Remainder(line, severity_match(line)),
                            FirstBracket(Remainder(line, severity_match(line)))[2] + 1,
                            Len(Remainder(line, severity_match(line)))))

(***************************************************************************)
(* Properties of the pattern normalization                                 *)
(***************************************************************************)
\* hex digits in either letter case, and the hyphen
HexOrHyphen == {"a","b","c","d","e","f","A","B","C","D","E","F","-"} \cup DigitSet

\* the number of leading characters of s that belong to class
RECURSIVE Leading(_, _)
Leading(s, class) ==
    IF s # <<>> /\ Head(s) \in class THEN 1 + Leading(Tail(s), class) ELSE 0

\* s with every maximal run of at least least characters of class replaced
\* by token
RECURSIVE MaskRuns(_, _, _, _)
MaskRuns(s, class, least, token) ==
    IF s = <<>> THEN <<>>
    ELSE IF Leading(s, class) >= least
         THEN token \o MaskRuns(Slice(s, Leading(s, class) + 1, Len(s)), class, least, token)
         ELSE IF Leading(s, class) > 0
              THEN Slice(s, 1, Leading(s, class))
                   \o MaskRuns(Slice(s, Leading(s, class) + 1, Len(s)), class, least, token)
              ELSE <<Head(s)>> \o MaskRuns(Tail(s), class, least, token)

\* runs of 8 or more hex digits (either case) and hyphens masked first, the
\* remaining runs of digits after
IdsThenNumbers(s) ==
    MaskRuns(MaskRuns(s, HexOrHyphen, 8, <<"<","I","D",">">>), DigitSet, 1,
             <<"<","N","U","M",">">>)

\* C9: the pattern of an error message longer than 10 characters is the
\* message with every run of 8 or more hex digits (a-f in either case, 0-9)
\* and hyphens replaced by <ID> and then every remaining run of digits
\* replaced by <NUM>, and it holds no digit
C9IdsMaskedBeforeNumbers ==
    pc = "appended" =>
        /\ pattern = IdsThenNumbers(error)
        /\ \A k \in 1..Len(pattern) : pattern[k] \notin DigitSet

(***************************************************************************)
(* Properties of main's AI enhancement                                     *)
(***************************************************************************)
\* C10: when main is done, 'ai_enhancement_used' is true only if
\* enhance_solutions ran its loop over the solutions (it then recorded the
\* model and every solution carries 'ai_enhanced' and 'original_solution');
\* a run whose check inside enhance_solutions failed ends with the flag false
C10UsedOnlyIfLoopRan ==
    (pc = "done" /\ ai_enhancement_used = "True") =>
        /\ ollama_model_used
        /\ \A k \in 1..Len(solutions) :
              {"ai_enhanced", "original_solution"} \subseteq DOMAIN solutions[k]

(***************************************************************************)
(* Properties of analyze_log_entries, stated on the batch                  *)
(***************************************************************************)
\* the entries of the batch, each parsed on its own
RECURSIVE ParsedUpTo(_)
ParsedUpTo(n) ==
    IF n = 0 THEN <<>>
    ELSE Append(ParsedUpTo(n - 1), parse_log_entry(matches[n].content))

ParsedEntries == ParsedUpTo(Len(matches))

Analyzed == pc \in {"suggest", "result"}

IsErrorEntry(e) == e.severity \in {kwERROR, kwCRITICAL, kwFATAL}

\* the entry adds one to the count of a (component, pattern) key
Contributes(e) == e.has_component /\ IsErrorEntry(e) /\ Len(e.message) > 10

KeyOf(e) == [component |-> e.component, pattern |-> Normalize(e.message)]

\* for each entry of the batch, <<its key>> when it contributes to one, and
\* << >> when it does not
RECURSIVE EntryKeys(_)
EntryKeys(P) ==
    IF P = <<>> THEN <<>>
    ELSE <<IF Contributes(Head(P)) THEN <<KeyOf(Head(P))>> ELSE <<>>>>
         \o EntryKeys(Tail(P))

AllKeys(K) == {K[k][1] : k \in {j \in 1..Len(K) : K[j] # <<>>}}

CountOf(K, key) == Cardinality({k \in 1..Len(K) : K[k] = <<key>>})

\* the position in the batch of the first entry that contributes to key
FirstContribution(K, key) ==
    CHOOSE k \in 1..Len(K) : K[k] = <<key>> /\ \A j \in 1..(k - 1) : K[j] # <<key>>

\* the position in the batch of the first error entry of the component
FirstErrorOf(P, component) ==
    CHOOSE k \in 1..Len(P) :
        /\ P[k].has_component /\ IsErrorEntry(P[k]) /\ P[k].component = component
        /\ \A j \in 1..(k - 1) :
              ~(P[j].has_component /\ IsErrorEntry(P[j]) /\ P[j].component = component)

\* the key of the r-th element of the returned error_patterns
Listed(r) ==
    [component |-> analysis.error_patterns[r].component,
     pattern   |-> analysis.error_patterns[r].pattern]

ListedKeys == {Listed(r) : r \in 1..Len(analysis.error_patterns)}

\* key a ranks before key b: by count, ties by the first contributing entry
InputOrder(K, a, b) ==
    \/ CountOf(K, a) > CountOf(K, b)
    \/ /\ CountOf(K, a) = CountOf(K, b)
       /\ FirstContribution(K, a) < FirstContribution(K, b)

\* key a ranks before key b: by count, ties by the component's first error
\* entry, and within a component by the first contributing entry
GroupedOrder(P, K, a, b) ==
    \/ CountOf(K, a) > CountOf(K, b)
    \/ /\ CountOf(K, a) = CountOf(K, b)
       /\ \/ FirstErrorOf(P, a.component) < FirstErrorOf(P, b.component)
          \/ /\ a.component = b.component
             /\ FirstContribution(K, a) < FirstContribution(K, b)

\* C1, as stated: the returned error_patterns are ordered by count
\* descending and, among keys of equal count, the key whose first
\* contributing entry comes earlier in the batch ranks earlier, within the
\* list and against the keys the top-10 cut leaves out
C1TiesInInputOrder ==
    Analyzed =>
        \A K \in {EntryKeys(ParsedEntries)} :
            /\ \A i, j \in 1..Len(analysis.error_patterns) :
                  i < j => InputOrder(K, Listed(i), Listed(j))
            /\ \A i \in 1..Len(analysis.error_patterns) :
                  \A key \in AllKeys(K) \ ListedKeys : InputOrder(K, Listed(i), key)

\* C1, amended: the returned error_patterns are ordered by count descending
\* and, among keys of equal count, the key of the component whose first
\* error entry comes earlier in the batch ranks earlier, and of two keys of
\* one component the one whose first contributing entry comes earlier;
\* within the list and against the keys the top-10 cut leaves out
C1TiesInInsertionOrder ==
    Analyzed =>
        \A P \in {ParsedEntries} : \A K \in {EntryKeys(P)} :
            /\ \A i, j \in 1..Len(analysis.error_patterns) :
                  i < j => GroupedOrder(P, K, Listed(i), Listed(j))
            /\ \A i \in 1..Len(analysis.error_patterns) :
                  \A key \in AllKeys(K) \ ListedKeys : GroupedOrder(P, K, Listed(i), key)

\* a batch whose components interleave has been analyzed: two listed keys of
\* equal count stand in the reverse of their input order, and a key the cut
\* left out has the count of the last listed key
C1Witness ==
    /\ Analyzed
    /\ Len(analysis.error_patterns) = 10
    /\ \E K \in {EntryKeys(ParsedEntries)} :
          /\ \E i, j \in 1..Len(analysis.error_patterns) :
                /\ i < j
                /\ analysis.error_patterns[i].count = analysis.error_patterns[j].count
                /\ FirstContribution(K, Listed(j)) < FirstContribution(K, Listed(i))
          /\ \E key \in AllKeys(K) \ ListedKeys :
                CountOf(K, key) = analysis.error_patterns[10].count

\* the number of times key occurs in the error_patterns list being counted
Occurs(key) == Cardinality({k \in 1..Len(error_patterns) : error_patterns[k] = key})

\* C2: the returned error_patterns has at most 10 elements, its counts do
\* not increase from first to last, and no key left out of it has a count
\* greater than the smallest count in it
C2TopTenByCount ==
    Analyzed =>
        /\ Len(analysis.error_patterns) <= 10
        /\ \A r \in 1..(Len(analysis.error_patterns) - 1) :
              analysis.error_patterns[r].count >= analysis.error_patterns[r + 1].count
        /\ \A r \in 1..Len(analysis.error_patterns) :
              analysis.error_patterns[r].count = Occurs(Listed(r))
        /\ \A key \in Range(error_patterns) \ ListedKeys :
              /\ analysis.error_patterns # <<>>
              /\ \A r \in 1..Len(analysis.error_patterns) :
                    Occurs(key) <= analysis.error_patterns[r].count

\* more than 10 keys were counted: the list is full, its counts differ, and
\* a key was left out
C2Witness ==
    /\ Analyzed
    /\ Len(analysis.error_patterns) = 10
    /\ analysis.error_patterns[1].count > analysis.error_patterns[10].count
    /\ Range(error_patterns) \ ListedKeys # {}

\* the sum of the counts of a Counter
RECURSIVE SumOver(_, _)
SumOver(counter, keys) ==
    IF keys = {} THEN 0
    ELSE counter[CHOOSE k \in keys : TRUE]
         + SumOver(counter, keys \ {CHOOSE k \in keys : TRUE})

\* C3: total_entries is the length of the batch, the counts of
\* severity_distribution sum to it, components maps each component to the
\* number of entries parsed with it (entries without one are in no key), and
\* the empty batch gives 0, empty maps, no time_pattern and no error_patterns
C3Histograms ==
    Analyzed =>
        \A P \in {ParsedEntries} :
            /\ analysis.total_entries = Len(matches)
            /\ SumOver(analysis.severity_distribution,
                       DOMAIN analysis.severity_distribution) = analysis.total_entries
            /\ DOMAIN analysis.components =
                  {P[k].component : k \in {j \in 1..Len(P) : P[j].has_component}}
            /\ \A c \in DOMAIN analysis.components :
                  analysis.components[c] =
                      Cardinality({k \in 1..Len(P) :
                                      P[k].has_component /\ P[k].component = c})
            /\ matches = <<>> =>
                  /\ analysis.total_entries = 0
                  /\ DOMAIN analysis.severity_distribution = {}
                  /\ DOMAIN analysis.components = {}
                  /\ ~analysis.time_pattern.present
                  /\ analysis.error_patterns = <<>>

\* a batch with several severities, several components and an entry without
\* component has been analyzed
C3Witness ==
    /\ Analyzed
    /\ Cardinality(DOMAIN analysis.severity_distribution) >= 2
    /\ Cardinality(DOMAIN analysis.components) >= 2
    /\ \E c \in DOMAIN analysis.components : analysis.components[c] >= 2
    /\ \E k \in 1..Len(matches) : ~parse_log_entry(matches[k].content).has_component

\* the number of messages buffered in errors_by_component
RECURSIVE BufferedTotal(_)
BufferedTotal(ebc) ==
    IF ebc = <<>> THEN 0 ELSE Len(Head(ebc).errors) + BufferedTotal(Tail(ebc))

\* C4: every entry of severity ERROR, CRITICAL or FATAL has its message
\* buffered, and before the top-10 cut the pattern counts sum to the number
\* of entries of those severities whose message is longer than 10
\* characters, with or without a bracketed component
C4EveryErrorCounted ==
    pc \in {"count", "suggest", "result"} =>
        \A P \in {ParsedEntries} :
            /\ BufferedTotal(acc.errors_by_component) =
                  Cardinality({k \in 1..Len(P) : IsErrorEntry(P[k])})
            /\ Len(error_patterns) =
                  Cardinality({k \in 1..Len(P) :
                                  IsErrorEntry(P[k]) /\ Len(P[k].message) > 10})

(***************************************************************************)
(* Properties of suggest_solutions                                         *)
(***************************************************************************)
\* s holds the word w, letter case aside
HoldsWord(s, w) ==
    \E p \in 1..(Len(s) - Len(w) + 1) :
        \A k \in 1..Len(w) : SameLetter(s[p + k - 1], w[k])

\* some returned pattern holds one of the words
Mentions(words) ==
    \E r \in 1..Len(analysis.error_patterns) :
        \E w \in words : HoldsWord(analysis.error_patterns[r].pattern, w)

Problems == {solutions[k].problem : k \in 1..Len(solutions)}

\* C5: each of the three suggestions is returned exactly when a pattern
\* holds one of its keywords, the fallback exactly when none of the three
\* rules matched; the result is never empty, and never mixes the fallback
\* with a rule's suggestion
C5RulesIndependent ==
    pc = "result" =>
        /\ "Connection issues" \in Problems <=> Mentions({kwConnect, kwTimeout})
        /\ "Permission issues" \in Problems <=> Mentions({kwPermission, kwDenied})
        /\ "System resource limits" \in Problems <=> Mentions({kwMemory, kwCpu, kwDisk})
        /\ "Uncategorized errors" \in Problems <=>
              ~Mentions({kwConnect, kwTimeout, kwPermission, kwDenied,
                         kwMemory, kwCpu, kwDisk})
        /\ solutions # <<>>
        /\ Len(solutions) = Cardinality(Problems)
        /\ "Uncategorized errors" \in Problems => Len(solutions) = 1

\* two rules matched at once, one of them on a keyword in mixed case
C5Witness ==
    /\ pc = "result"
    /\ {"Connection issues", "System resource limits"} \subseteq Problems
    /\ \E r \in 1..Len(analysis.error_patterns) :
          /\ HoldsWord(analysis.error_patterns[r].pattern, kwConnect)
          /\ ~Contains(analysis.error_patterns[r].pattern, kwConnect)

====
